---- MODULE Spec2Model ----
(***************************************************************************)
(* Model of mclf/padic_extensions/weak_padic_galois_extensions.py:         *)
(* the class WeakPadicGaloisExtension, its constructor, its memoized       *)
(* queries and the computation of the ramification jumps (lower and upper  *)
(* numbering) from the sides of the ramification polygon.                  *)
(*                                                                         *)
(* Rational numbers are pairs <<n, d>> in lowest terms with d > 0, as Sage *)
(* keeps them.  A vertex of a Newton polygon is a pair <<x, y>>, a jump is *)
(* a pair <<u, m>> with u a rational and m an integer.                     *)
(***************************************************************************)
EXTENDS Integers, Sequences, FiniteSets, TLC

VARIABLES K, F, minimal_ramification, pc, L, e, m, self, err, wsf_requested,
          call, ret, ncalls, computes, points, jumps

vars == <<K, F, minimal_ramification, pc, L, e, m, self, err, wsf_requested,
          call, ret, ncalls, computes, points, jumps>>

(* ---------------------------- bounds ----------------------------------- *)
MaxRam == 4      \* largest minimal_ramification passed to the constructor
MaxEL == 4       \* largest ramification degree a splitting field reports
MaxFL == 2       \* largest inertia degree a splitting field reports
MaxCalls == 3    \* number of queries made on one extension object
MaxE == 4        \* largest ramification degree in the jump computations
MaxY == 6        \* largest valuation v(G[i]) of a coefficient of G

Primes == {2, 3}

(* ------------------------ exact rationals ------------------------------ *)
Abs(x) == IF x < 0 THEN -x ELSE x

RECURSIVE GCD(_, _)
GCD(a, b) == IF b = 0 THEN a ELSE GCD(b, a % b)

Rat(n, d) ==
    LET g == GCD(Abs(n), Abs(d))
        s == IF d < 0 THEN -1 ELSE 1
    IN  <<(s * n) \div g, (s * d) \div g>>

Zero == <<0, 1>>
RatAdd(a, b) == Rat(a[1] * b[2] + b[1] * a[2], a[2] * b[2])
RatSub(a, b) == Rat(a[1] * b[2] - b[1] * a[2], a[2] * b[2])
RatScale(a, n, d) == Rat(a[1] * n, a[2] * d)      \* a * n / d
RatLess(a, b) == a[1] * b[2] < b[1] * a[2]

Divides(a, b) == b % a = 0                        \* a.divides(b)

Reverse(s) == [i \in 1..Len(s) |-> s[Len(s) + 1 - i]]

(* ------------------------ the Newton polygon --------------------------- *)
\* NewtonPolygon([(i, v(G[i])) for i in range(G.degree()+1)]): the vertices
\* of the lower convex hull of the points (x, y[x]), x = 0..n-1, by x.
IsVertex(y, n, x) ==
    \A j \in 0..(x - 1) : \A k \in (x + 1)..(n - 1) :
        (y[x] - y[j]) * (k - j) < (y[k] - y[j]) * (x - j)

RECURSIVE VertexSeq(_, _, _)
VertexSeq(y, n, x) ==
    IF x >= n THEN <<>>
    ELSE (IF IsVertex(y, n, x) THEN << <<x, y[x]>> >> ELSE <<>>)
         \o VertexSeq(y, n, x + 1)

NewtonPolygon(y, n) == VertexSeq(y, n, 0)

\* NP.sides(): the pairs of consecutive vertices, from left to right
Sides(NP) == [i \in 1..(Len(NP) - 1) |-> <<NP[i], NP[i + 1]>>]

(* --------------------- _compute_lower_jumps ---------------------------- *)
\* one pass of the loop over NP.sides(): the pair (u, m) of one side
SideJumpNoCorrection(v1, v2, rd) ==
    LET u == Rat((v1[2] - v2[2]) - (v2[1] - v1[1]), v2[1] - v1[1])
    IN  <<u, v2[1] + 1>>

SideJump(v1, v2, rd) ==
    LET u == Rat((v1[2] - v2[2]) - (v2[1] - v1[1]), v2[1] - v1[1])
    IN  <<u, IF u = Zero THEN rd ELSE v2[1] + 1>>

\* the list `jumps` when the loop ends
RawJumps(sides, rd) ==
    [i \in 1..Len(sides) |-> SideJump(sides[i][1], sides[i][2], rd)]

\* if len(jumps) >= 2 and jumps[0][1] == jumps[1][1]: jumps = jumps[1:]
DropFirstNever(js) == js

DropFirst(js) ==
    IF Len(js) >= 2 /\ js[1][2] = js[2][2] THEN Tail(js) ELSE js

ReverseJumpsKeepOrder(js) == js

ReverseJumps(js) == Reverse(js)

\* the value stored as _lower_jumps for a polygon NP (ramification degree > 1)
LowerJumpsOf(NP, rd) == DropFirst(ReverseJumps(RawJumps(Sides(NP), rd)))

(* --------------------- _compute_upper_jumps ---------------------------- *)
\* u[0] = m[0]*g[0]/e
UpperFirstOrderSquared(m0, g0, rd) == Rat(g0 * g0, rd)

UpperFirst(m0, g0, rd) == RatScale(m0, g0, rd)

\* u[i-1] + (m[i]-m[i-1])*g[i]/e
UpperNextPrevOrder(uprev, mprev, mcur, gprev, gcur, rd) ==
    RatAdd(uprev, RatScale(RatSub(mcur, mprev), gprev, rd))

UpperNextBackwards(uprev, mprev, mcur, gprev, gcur, rd) ==
    RatAdd(uprev, RatScale(RatSub(mprev, mcur), gcur, rd))

UpperNext(uprev, mprev, mcur, gprev, gcur, rd) ==
    RatAdd(uprev, RatScale(RatSub(mcur, mprev), gcur, rd))

\* the list u after the pass i = k-1 of the loop (k >= 1 entries)
RECURSIVE UList(_, _, _)
UList(lj, rd, k) ==
    IF k = 1 THEN <<UpperFirst(lj[1][1], lj[1][2], rd)>>
    ELSE LET prev == UList(lj, rd, k - 1)
         IN  Append(prev, UpperNext(prev[k - 1], lj[k - 1][1], lj[k][1],
                                    lj[k - 1][2], lj[k][2], rd))

\* the value stored as _upper_jumps for the lower jumps lj
UpperJumpsOf(lj, rd) ==
    IF lj = <<>> THEN <<>>
    ELSE LET u == UList(lj, rd, Len(lj))
         IN  [i \in 1..Len(lj) |-> <<u[i], lj[i][2]>>]

(* ------------------------ the extension object ------------------------- *)
NoField == [is_Qp |-> FALSE, p |-> 0, e |-> 0, f |-> 0, n |-> 0]
NoAttr == [set |-> FALSE, val |-> <<>>]       \* hasattr(self, ...) is False
Attr(v) == [set |-> TRUE, val |-> v]

NoSelf == [base_field |-> NoField, extension_field |-> NoField,
           ramification_degree |-> 0, degree |-> 0, inertia_degree |-> 0,
           ramification_polygon |-> NoAttr, lower_jumps |-> NoAttr,
           upper_jumps |-> NoAttr]

\* the outcome of a call: the object after it, the value returned or the
\* exception raised, and the attributes the call assigned
Ok(s, v, st) == [self |-> s, raised |-> FALSE, exc |-> "", val |-> v, stored |-> st]
Raise(s, x, st) == [self |-> s, raised |-> TRUE, exc |-> x, val |-> <<>>, stored |-> st]
NoRet == [raised |-> FALSE, exc |-> "", val |-> <<>>, stored |-> {}]

\* ramification_polygon(): the stored polygon if there is one; otherwise the
\* computation, which stops at the name L that no scope binds
ramification_polygon(s) ==
    IF s.ramification_polygon.set
    THEN Ok(s, s.ramification_polygon.val, {})
    ELSE IF ~ s.base_field.is_Qp
         THEN Raise(s, "AssertionError: K has to be equal to Q_p", {})
         ELSE Raise(s, "NameError: L", {})

\* In the operators below an exception raised by a call passes through
\* its caller: the outcome r of the call is handed on as it is.
StoreLower(r, v) ==
    Ok([r.self EXCEPT !.lower_jumps = Attr(v)], <<>>, r.stored \cup {"lower_jumps"})

StoreUpper(r, v) ==
    Ok([r.self EXCEPT !.upper_jumps = Attr(v)], <<>>, r.stored \cup {"upper_jumps"})

\* the else branch of _compute_lower_jumps, after ramification_polygon()
\* ended with the outcome r
LowerFromPolygon(r, rd) ==
    IF r.raised THEN r ELSE StoreLower(r, LowerJumpsOf(r.val, rd))

compute_lower_jumps(s) ==
    IF s.ramification_degree = 1
    THEN StoreLower(Ok(s, <<>>, {}), <<>>)
    ELSE LowerFromPolygon(ramification_polygon(s), s.ramification_degree)

\* return self._lower_jumps
ReturnLowerJumps(r) ==
    IF r.raised THEN r ELSE Ok(r.self, r.self.lower_jumps.val, r.stored)

\* ramification_filtration() with upper_numbering = False
lower_filtration_recompute(s) == ReturnLowerJumps(compute_lower_jumps(s))

lower_filtration(s) ==
    IF s.lower_jumps.set
    THEN Ok(s, s.lower_jumps.val, {})
    ELSE ReturnLowerJumps(compute_lower_jumps(s))

\* [u for u, m in ...]
FirstComponents(r) ==
    IF r.raised THEN r
    ELSE Ok(r.self, [i \in 1..Len(r.val) |-> r.val[i][1]], r.stored)

lower_jumps(s) == FirstComponents(lower_filtration(s))

\* lines 285-292, after self.ramification_filtration() ended with the
\* outcome q
UpperFromFiltration(q, stored, rd) ==
    IF q.raised THEN q
    ELSE StoreUpper([q EXCEPT !.stored = stored \cup q.stored],
                    UpperJumpsOf(q.val, rd))

\* lines 282-292, after self.lower_jumps() ended with the outcome r
UpperFromLower(r, rd) ==
    IF r.raised THEN r
    ELSE IF r.val = <<>> THEN StoreUpper(r, <<>>)
    ELSE UpperFromFiltration(lower_filtration(r.self), r.stored, rd)

compute_upper_jumps(s) == UpperFromLower(lower_jumps(s), s.ramification_degree)

\* return self._upper_jumps
ReturnUpperJumps(r) ==
    IF r.raised THEN r ELSE Ok(r.self, r.self.upper_jumps.val, r.stored)

upper_filtration(s) ==
    IF s.upper_jumps.set
    THEN Ok(s, s.upper_jumps.val, {})
    ELSE ReturnUpperJumps(compute_upper_jumps(s))

ramification_filtration(s, upper_numbering) ==
    IF upper_numbering THEN upper_filtration(s) ELSE lower_filtration(s)

upper_jumps(s) == FirstComponents(ramification_filtration(s, TRUE))

(* --------------------------- the constructor --------------------------- *)
Fields ==
    {[is_Qp |-> TRUE, p |-> q, e |-> 1, f |-> 1, n |-> 1] : q \in Primes}
    \cup {[is_Qp |-> FALSE, p |-> q, e |-> 2, f |-> 1, n |-> 2] : q \in Primes}

\* F: a polynomial (the sextic of the module's example or another one),
\* the empty list or a non-empty list of polynomials
FInputs == {"x^6+6*x^4+6*x^3+18", "polynomial", "empty_list", "list"}

\* what K.weak_splitting_field(F) may hand back: its absolute ramification
\* degree, inertia degree and degree
SplittingFields ==
    {[is_Qp |-> FALSE, p |-> 0, e |-> a, f |-> b, n |-> c] :
        a \in 1..MaxEL, b \in 1..MaxFL, c \in 1..(MaxEL * MaxFL)}

\* the two assertions that open __init__: "" when both pass
PreconditionsNoPrimeCheck(k, mr) ==
    IF ~ k.is_Qp THEN "AssertionError: for the moment, K has to be Q_p" ELSE ""

Preconditions(k, mr) ==
    IF ~ k.is_Qp THEN "AssertionError: for the moment, K has to be Q_p"
    ELSE IF Divides(k.p, mr)
    THEN "AssertionError: minimal_ramification has to be prime to p"
    ELSE ""

\* the final assertion of __init__
DegreesAgreeUnchecked(d, rd, fd) == TRUE

DegreesAgree(d, rd, fd) == d = rd * fd

Init ==
    /\ K \in Fields
    /\ F \in FInputs
    /\ minimal_ramification \in 1..MaxRam
    /\ pc = "init"
    /\ L = NoField
    /\ e = 0
    /\ m = 0
    /\ self = NoSelf
    /\ err = ""
    /\ wsf_requested = FALSE
    /\ call = "none"
    /\ ret = NoRet
    /\ ncalls = 0
    /\ computes = [a \in {"ramification_polygon", "lower_jumps", "upper_jumps"} |-> 0]
    /\ points = <<>>
    /\ jumps = <<>>

Fail(x) == /\ pc' = "failed"
           /\ err' = x

\* lines 147-148
CheckPreconditions ==
    /\ pc = "init"
    /\ LET x == Preconditions(K, minimal_ramification)
       IN  IF x # "" THEN Fail(x) ELSE pc' = "product" /\ err' = err
    /\ UNCHANGED <<K, F, minimal_ramification, L, e, m, self, wsf_requested,
                   call, ret, ncalls, computes, points, jumps>>

\* lines 149-153
NormaliseF ==
    /\ pc = "product"
    /\ F' = IF F \in {"x^6+6*x^4+6*x^3+18", "polynomial"} THEN F
            ELSE IF F = "empty_list" THEN "1" ELSE "prod(F)"
    /\ pc' = "split"
    /\ UNCHANGED <<K, minimal_ramification, L, e, m, self, err, wsf_requested,
                   call, ret, ncalls, computes, points, jumps>>

\* lines 154-156
WeakSplittingField ==
    /\ pc = "split"
    /\ self' = [self EXCEPT !.base_field = K]
    /\ wsf_requested' = TRUE
    /\ \E l \in SplittingFields :
          /\ L' = l
          /\ IF l.e % K.e = 0
             THEN e' = l.e \div K.e /\ pc' = "ramify" /\ err' = err
             ELSE e' = e /\ Fail("TypeError: no conversion of this rational to integer")
    /\ UNCHANGED <<K, F, minimal_ramification, m, call, ret, ncalls,
                   computes, points, jumps>>

\* lines 157-164: the branch that enlarges L reads the name eL, which no
\* scope binds
EnlargeRamification ==
    /\ pc = "ramify"
    /\ IF ~ Divides(minimal_ramification, e)
       THEN m' = m /\ Fail("NameError: eL")
       ELSE m' = 1 /\ pc' = "record" /\ err' = err
    /\ UNCHANGED <<K, F, minimal_ramification, L, e, self, wsf_requested,
                   call, ret, ncalls, computes, points, jumps>>

\* lines 165-169
RecordDegrees ==
    /\ pc = "record"
    /\ IF L.n % K.n # 0 \/ L.f % K.f # 0
       THEN self' = self /\ Fail("TypeError: no conversion of this rational to integer")
       ELSE LET s == [self EXCEPT !.extension_field = L,
                                  !.ramification_degree = e * m,
                                  !.degree = L.n \div K.n,
                                  !.inertia_degree = L.f \div K.f]
            IN  IF DegreesAgree(s.degree, s.ramification_degree, s.inertia_degree)
                THEN self' = s /\ pc' = "constructed" /\ err' = err
                ELSE self' = self /\ Fail("AssertionError")
    /\ UNCHANGED <<K, F, minimal_ramification, L, e, m, wsf_requested,
                   call, ret, ncalls, computes, points, jumps>>

(* ----------------------------- the queries ----------------------------- *)
Query(name, r) ==
    /\ pc = "constructed"
    /\ ncalls < MaxCalls
    /\ call' = name
    /\ ncalls' = ncalls + 1
    /\ self' = r.self
    /\ ret' = [raised |-> r.raised, exc |-> r.exc, val |-> r.val, stored |-> r.stored]
    /\ computes' = [a \in DOMAIN computes |->
                       computes[a] + (IF a \in r.stored THEN 1 ELSE 0)]
    /\ UNCHANGED <<K, F, minimal_ramification, pc, L, e, m, err,
                   wsf_requested, points, jumps>>

RamificationPolygon == Query("ramification_polygon", ramification_polygon(self))

RamificationFiltration ==
    \E upper_numbering \in BOOLEAN :
        Query(IF upper_numbering THEN "ramification_filtration(True)"
              ELSE "ramification_filtration(False)",
              ramification_filtration(self, upper_numbering))

LowerJumps == Query("lower_jumps", lower_jumps(self))

UpperJumps == Query("upper_jumps", upper_jumps(self))

Next ==
    \/ CheckPreconditions
    \/ NormaliseF
    \/ WeakSplittingField
    \/ EnlargeRamification
    \/ RecordDegrees
    \/ RamificationPolygon
    \/ RamificationFiltration
    \/ LowerJumps
    \/ UpperJumps

Spec == Init /\ [][Next]_vars

(* ------------- the jump computations on a polygon ---------------------- *)
\* An extension of ramification degree rd over Q_3 whose ramification
\* polynomial G (of degree rd - 1, as the assertion on P1.degree() makes it)
\* has coefficients of the valuations y[0], ..., y[rd-1].
Q3 == [is_Qp |-> TRUE, p |-> 3, e |-> 1, f |-> 1, n |-> 1]

InitJumps ==
    /\ K = Q3
    /\ F = "polynomial"
    /\ minimal_ramification = 1
    /\ pc = "G"
    /\ \E rd \in 1..MaxE :
          /\ points \in [0..(rd - 1) -> 0..MaxY]
          /\ L = [is_Qp |-> FALSE, p |-> 0, e |-> rd, f |-> 1, n |-> rd]
          /\ e = rd
          /\ self = [NoSelf EXCEPT !.base_field = Q3, !.extension_field = L,
                                   !.ramification_degree = rd, !.degree = rd,
                                   !.inertia_degree = 1]
    /\ m = 1
    /\ err = ""
    /\ wsf_requested = TRUE
    /\ call = "none"
    /\ ret = NoRet
    /\ ncalls = 0
    /\ computes = [a \in {"ramification_polygon", "lower_jumps", "upper_jumps"} |-> 0]
    /\ jumps = <<>>

\* line 372
NewtonPolygonOfG ==
    /\ pc = "G"
    /\ self' = [self EXCEPT !.ramification_polygon =
                   Attr(NewtonPolygon(points, self.ramification_degree))]
    /\ computes' = [computes EXCEPT !["ramification_polygon"] = @ + 1]
    /\ pc' = "lower"
    /\ UNCHANGED <<K, F, minimal_ramification, L, e, m, err, wsf_requested,
                   call, ret, ncalls, points, jumps>>

\* lines 249-273; jumps keeps the list as the loop over the sides left it
ComputeLowerJumps ==
    /\ pc = "lower"
    /\ self' = compute_lower_jumps(self).self
    /\ jumps' = IF self.ramification_degree = 1 THEN <<>>
                ELSE RawJumps(Sides(self.ramification_polygon.val),
                              self.ramification_degree)
    /\ computes' = [computes EXCEPT !["lower_jumps"] = @ + 1]
    /\ pc' = "upper"
    /\ UNCHANGED <<K, F, minimal_ramification, L, e, m, err, wsf_requested,
                   call, ret, ncalls, points>>

\* lines 276-292
ComputeUpperJumps ==
    /\ pc = "upper"
    /\ self' = compute_upper_jumps(self).self
    /\ computes' = [computes EXCEPT !["upper_jumps"] = @ + 1]
    /\ pc' = "done"
    /\ UNCHANGED <<K, F, minimal_ramification, L, e, m, err, wsf_requested,
                   call, ret, ncalls, points, jumps>>

NextJumps ==
    \/ NewtonPolygonOfG
    \/ ComputeLowerJumps
    \/ ComputeUpperJumps

SpecJumps == InitJumps /\ [][NextJumps]_vars

(* ------------------------------ the claims ----------------------------- *)
Attrs == {"ramification_polygon", "lower_jumps", "upper_jumps"}
QpAssertion == "AssertionError: for the moment, K has to be Q_p"
PrimeAssertion == "AssertionError: minimal_ramification has to be prime to p"

\* C1: every extension object the constructor returns has
\* degree == ramification_degree * inertia_degree, and a splitting field
\* whose degrees violate the equality leaves no object behind.
C1_DegreeIsProduct ==
    /\ pc = "constructed" =>
          /\ self.degree = self.ramification_degree * self.inertia_degree
          /\ self.ramification_degree = e * m
          /\ L.n = L.e * L.f
    /\ (pc = "failed" /\ err = "AssertionError") =>
          /\ L.n # L.e * L.f
          /\ self.extension_field = NoField

C1_Witness ==
    /\ pc = "constructed"
    /\ self.ramification_degree > 1
    /\ self.inertia_degree > 1

\* C2: for K = Q_p and minimal_ramification coprime to p the constructor
\* returns an extension whose ramification_degree is a multiple of
\* minimal_ramification, also when minimal_ramification does not divide e
\* (the splitting field reporting a degree that is e times f).
C2_MultipleOfMinimalRamification ==
    (/\ pc \in {"constructed", "failed"}
     /\ K.is_Qp
     /\ ~ Divides(K.p, minimal_ramification)
     /\ L.n = L.e * L.f)
    => (/\ pc = "constructed"
        /\ Divides(minimal_ramification, self.ramification_degree))

(* lists of jumps *)
IncreasingJumps(js) ==
    \A i \in 1..(Len(js) - 1) : RatLess(js[i][1], js[i + 1][1])

NonIncreasingOrders(js) ==
    \A i \in 1..(Len(js) - 1) : js[i][2] >= js[i + 1][2]

LowerComputed == pc \in {"upper", "done"}

C4_TransformOfOrders ==
    pc = "done" =>
        LET lj == self.lower_jumps.val
            uj == self.upper_jumps.val
            rd == self.ramification_degree
        IN  /\ Len(uj) = Len(lj)
            /\ \A i \in 1..Len(lj) : uj[i][2] = lj[i][2]
            /\ lj # <<>> => uj[1][1] = Rat(lj[1][2] * lj[1][2], rd)
            /\ \A i \in 2..Len(lj) :
                  RatSub(uj[i][1], uj[i - 1][1])
                     = Rat((lj[i][2] - lj[i - 1][2]) * lj[i][2], rd)

\* C4 amended: the upper jumps are phi_0 = u_0 * m_0 / e and
\* phi_i = phi_{i-1} + (u_i - u_{i-1}) * m_i / e, with u_i the jump value and
\* m_i the subgroup order of the i-th lower jump; empty lower jumps give
\* empty upper jumps and the orders are carried over unchanged.
C4_TransformOfJumps ==
    pc = "done" =>
        LET lj == self.lower_jumps.val
            uj == self.upper_jumps.val
            rd == self.ramification_degree
        IN  /\ Len(uj) = Len(lj)
            /\ \A i \in 1..Len(lj) : uj[i][2] = lj[i][2]
            /\ lj # <<>> =>
                  uj[1][1][1] * lj[1][1][2] * rd
                     = lj[1][1][1] * lj[1][2] * uj[1][1][2]
            /\ \A i \in 2..Len(lj) :
                  LET d == RatSub(uj[i][1], uj[i - 1][1])
                      du == RatSub(lj[i][1], lj[i - 1][1])
                  IN  d[1] * du[2] * rd = du[1] * lj[i][2] * d[2]

C4_Witness ==
    /\ pc = "done"
    /\ Len(self.upper_jumps.val) >= 2
    /\ self.lower_jumps.val[1][1] # Zero

\* C5: the upper jumps have the length of the lower jumps, carry the same
\* orders at the same places and are strictly increasing in the jump value;
\* empty lower jumps (ramification_degree 1) give empty upper jumps.
C5_UpperJumpsIncreasing ==
    pc = "done" =>
        LET lj == self.lower_jumps.val
            uj == self.upper_jumps.val
        IN  (IncreasingJumps(lj) /\ \A i \in 1..Len(lj) : lj[i][2] > 0)
            => /\ Len(uj) = Len(lj)
               /\ \A i \in 1..Len(lj) : uj[i][2] = lj[i][2]
               /\ IncreasingJumps(uj)
               /\ (self.ramification_degree = 1 => uj = <<>>)

C5_Witness ==
    /\ pc = "done"
    /\ Len(self.upper_jumps.val) >= 3
    /\ \A i \in 1..3 : ~ RatLess(self.lower_jumps.val[i][1], Zero)

\* C6: for K = Q_3, F = x^6+6x^4+6x^3+18 and minimal_ramification = 1,
\* upper_jumps() returns [0, 1/2] (stated for the splitting fields that are
\* ramified over K, as a list of two jumps requires).
C6_DocumentedExample ==
    (/\ pc = "constructed"
     /\ self.ramification_degree > 1
     /\ K.is_Qp /\ K.p = 3
     /\ F = "x^6+6*x^4+6*x^3+18"
     /\ minimal_ramification = 1
     /\ call = "upper_jumps")
    => (/\ ~ ret.raised
        /\ ret.val = << <<0, 1>>, <<1, 2>> >>)

\* C7: a query never changes an attribute that is already stored and never
\* computes it again, so that each of the three values is computed at most
\* once; a query that returns hands back the stored value.
C7_Memoized ==
    [][/\ \A a \in Attrs :
              /\ self[a].set => (self'[a] = self[a] /\ computes'[a] = computes[a])
              /\ computes'[a] <= 1
       /\ (ncalls' # ncalls /\ ~ ret'.raised) =>
              /\ call' = "ramification_polygon" =>
                    (self'.ramification_polygon.set
                     /\ ret'.val = self'.ramification_polygon.val)
              /\ call' = "ramification_filtration(False)" =>
                    (self'.lower_jumps.set /\ ret'.val = self'.lower_jumps.val)
              /\ call' = "ramification_filtration(True)" =>
                    (self'.upper_jumps.set /\ ret'.val = self'.upper_jumps.val)
      ]_vars

C7_Witness ==
    /\ call = "ramification_filtration(False)"
    /\ ~ ret.raised
    /\ ret.stored = {}
    /\ computes["lower_jumps"] = 1
    /\ ret.val = self.lower_jumps.val

SideHasSlopeMinusOne(sd) == sd[1][2] - sd[2][2] = sd[2][1] - sd[1][1]

C9_ZeroJumpHasFullOrder ==
    LowerComputed =>
        LET sd == Sides(self.ramification_polygon.val)
            lj == self.lower_jumps.val
            rd == self.ramification_degree
        IN  /\ rd > 1 => Len(jumps) = Len(sd)
            /\ \A i \in 1..Len(jumps) :
                  SideHasSlopeMinusOne(sd[i]) => jumps[i] = <<Zero, rd>>
            /\ \A i \in 1..Len(lj) : lj[i][1] = Zero => lj[i][2] = rd

C9_Witness ==
    /\ pc = "done"
    /\ \E i \in 1..Len(jumps) :
          /\ jumps[i][1] = Zero
          /\ Sides(self.ramification_polygon.val)[i][2][1] + 1
                # self.ramification_degree
    /\ \E i \in 1..Len(self.lower_jumps.val) :
          self.lower_jumps.val[i][1] = Zero

\* C10: when K is not Q_p or p divides minimal_ramification the constructor
\* fails at its first step, with the splitting field not requested and no
\* attribute set; otherwise neither of the two assertions fails.
C10_PreconditionsFailFirst ==
    /\ (~ K.is_Qp \/ Divides(K.p, minimal_ramification)) =>
          /\ pc \in {"init", "failed"}
          /\ ~ wsf_requested
          /\ self = NoSelf
          /\ pc = "failed" =>
                err = (IF ~ K.is_Qp THEN QpAssertion ELSE PrimeAssertion)
    /\ (K.is_Qp /\ ~ Divides(K.p, minimal_ramification)) =>
          /\ err \notin {QpAssertion, PrimeAssertion}
          /\ pc # "init" => pc # "failed" \/ wsf_requested

C10_Witness ==
    /\ pc = "failed"
    /\ K.is_Qp
    /\ Divides(K.p, minimal_ramification)
    /\ err = PrimeAssertion

\* the sum of (u_j - u_{j-1}) * g_j over j = 1..i, with u_0 read as 0: the
\* Herbrand function at the i-th lower jump, times ramification_degree
RECURSIVE WeightedJumpSum(_, _)
WeightedJumpSum(lj, i) ==
    IF i = 0 THEN Zero
    ELSE LET before == IF i = 1 THEN Zero ELSE lj[i - 1][1]
         IN  RatAdd(WeightedJumpSum(lj, i - 1),
                    RatScale(RatSub(lj[i][1], before), lj[i][2], 1))

\* C11: the upper jumps are the Herbrand function of the lower jumps
\* (u_i, g_i): phi_0 = u_0 * g_0 / e and phi_i = phi_{i-1} +
\* (u_i - u_{i-1}) * g_i / e, that is, e * phi_i is the sum of the steps
\* (u_j - u_{j-1}) * g_j up to i; each phi_i comes with the order g_i, and
\* the first upper jump is 0 whenever the first lower jump is 0.
C11_HerbrandOfJumpValues ==
    pc = "done" =>
        LET lj == self.lower_jumps.val
            uj == self.upper_jumps.val
            rd == self.ramification_degree
        IN  /\ DOMAIN uj = DOMAIN lj
            /\ \A i \in DOMAIN lj :
                  /\ uj[i][2] = lj[i][2]
                  /\ RatScale(uj[i][1], rd, 1) = WeightedJumpSum(lj, i)
            /\ (lj # <<>> /\ lj[1][1] = Zero) => uj[1][1] = Zero

C11_Witness ==
    /\ pc = "done"
    /\ Len(self.upper_jumps.val) >= 2
    /\ self.lower_jumps.val[1][1] = Zero
    /\ self.upper_jumps.val[1][1] = Zero
    /\ self.upper_jumps.val[2][1] # self.lower_jumps.val[2][1]

====
